---- MODULE Spec2Model ----
(***************************************************************************)
(* A model of pulstream-plugin's instruction core:                         *)
(*   - utils/transformers.rs: extract_instructions_with_metadata,          *)
(*     process_instructions, build_instruction (the flat extractor);       *)
(*   - utils/instruction.rs: NestedInstructions::from, UnsafeNestedBuilder *)
(*     (the hierarchy builder) and InstructionPipe::run (the pipeline).    *)
(*                                                                         *)
(* Option<T> is modelled as a sequence: <<>> is None, <<x>> is Some(x).    *)
(* A Vec<NestedInstruction> is a sequence of node ids into an arena        *)
(* (node), with the capacity and the buffer generation of each Vec kept    *)
(* so that a raw pointer into a reallocated buffer is visibly dangling.    *)
(***************************************************************************)
EXTENDS Integers, Sequences, FiniteSets, TLC

\* carbon_core::instruction::MAX_INSTRUCTION_STACK_DEPTH
MAX_INSTRUCTION_STACK_DEPTH == 5

\* Bounds of the model.
MaxTop == 2      \* top-level instructions of a transaction
MaxInner == 2    \* inner instructions of a transaction, all groups together
MaxLen == 4      \* entries of a flat list handed to the builder directly
MaxCap == 1      \* capacity handed to UnsafeNestedBuilder::new directly
MaxRunLen == 4   \* entries of a flat list whose forest is traversed
WideTop == 257   \* instructions of the largest wide transaction
WideSpan == 2
MaxKeys == 2
MaxAccts == 3
MaxTail == 1    \* the wide transactions have WideTop - WideSpan .. WideTop

None == <<>>
Some(x) == <<x>>
unwrap_or(o, d) == IF o = None THEN d ELSE o[1]

\* `x as u8`
as_u8(x) == x % 256

Max(a, b) == IF a >= b THEN a ELSE b

Last(s) == s[Len(s)]

(***************************************************************************)
(* Transactions: the input of the extractor.                               *)
(***************************************************************************)

\* Option<u32> stack-height hints of inner instructions: absent, 0, in range,
\* and one above the maximum.
Hints == {None} \cup {Some(h) : h \in 0..(MAX_INSTRUCTION_STACK_DEPTH + 1)}

\* A CompiledInstruction: indices into the account-key table and a payload.
CompiledInstruction(pid, accts, data) ==
    [program_id_index |-> pid, accounts |-> accts, data |-> data]

\* The top-level instructions of a message with n instructions; instruction
\* i (0-based) carries payload <<i>>.
TopInstructions(n) == [i \in 1..n |-> CompiledInstruction(0, <<0>>, <<i - 1>>)]

\* One InnerInstructions group: index of its top-level instruction and its
\* InnerInstruction list (payload <<g, k>> for the k-th of group number g).
InnerGroup(g, idx, hints) ==
    [index |-> idx,
     instructions |-> [k \in 1..Len(hints) |->
        [instruction |-> CompiledInstruction(0, <<0>>, <<g, k>>),
         stack_height |-> hints[k]]]]

Header == [num_required_signatures |-> 1,
           num_readonly_signed_accounts |-> 0,
           num_readonly_unsigned_accounts |-> 0]

\* A transaction: a VersionedMessage and the TransactionStatusMeta fields
\* the extractor reads.
Transaction(format, n, inner) ==
    [format |-> format,
     header |-> Header,
     account_keys |-> <<1>>,
     loaded_writable |-> <<>>,
     loaded_readonly |-> <<>>,
     instructions |-> TopInstructions(n),
     inner_instructions |-> inner]

\* The transactions the model draws: n top-level instructions and at most two
\* inner groups (any indices in 0..n, n naming no instruction), the hints hs
\* split between the groups at cut.
MakeGroups(ng, idx1, idx2, hs, cut) ==
    IF ng = 0 THEN <<>>
    ELSE IF ng = 1 THEN <<InnerGroup(1, idx1, hs)>>
    ELSE <<InnerGroup(1, idx1, SubSeq(hs, 1, cut)),
           InnerGroup(2, idx2, SubSeq(hs, cut + 1, Len(hs)))>>

NoTransaction == Transaction("legacy", 0, None)

(***************************************************************************)
(* The flat extractor (utils/transformers.rs).                             *)
(***************************************************************************)

\* Pubkey::default(): the all-zero key.
DefaultPubkey == 0

\* The writability predicate handed to process_instructions: for a legacy
\* message legacy.is_maybe_writable(idx, None), for a v0 message membership
\* of the key in the loaded writable addresses.
is_writable(tx, key, idx) ==
    IF tx.format = "legacy"
    THEN \/ idx < tx.header.num_required_signatures
                    - tx.header.num_readonly_signed_accounts
         \/ /\ idx >= tx.header.num_required_signatures
            /\ idx < Len(tx.account_keys) - tx.header.num_readonly_unsigned_accounts
    ELSE \E j \in 1..Len(tx.loaded_writable) : tx.loaded_writable[j] = key

\* The signer predicate handed to process_instructions.
is_signer(tx, key, idx) == idx < tx.header.num_required_signatures

\* Mutant of resolved_account_keys: the loaded addresses are left out.
static_account_keys(tx) == tx.account_keys

\* The account-key table process_instructions resolves indices in.
resolved_account_keys(tx) ==
    IF tx.format = "legacy"
    THEN tx.account_keys
    ELSE tx.account_keys \o tx.loaded_writable \o tx.loaded_readonly

\* Mutant of filter_map_accounts: an index outside the table is not
\* skipped, it yields the default key.
map_accounts_or_default(tx, account_keys, accounts, j) ==
    [k \in 1..Len(accounts) |->
        IF accounts[k] < Len(account_keys)
        THEN [pubkey |-> account_keys[accounts[k] + 1],
              is_writable |-> is_writable(tx, account_keys[accounts[k] + 1], accounts[k]),
              is_signer |-> is_signer(tx, account_keys[accounts[k] + 1], accounts[k])]
        ELSE [pubkey |-> DefaultPubkey, is_writable |-> FALSE, is_signer |-> FALSE]]

RECURSIVE filter_map_accounts(_, _, _, _)
\* The accounts of build_instruction: indices outside the table are skipped.
filter_map_accounts(tx, account_keys, accounts, j) ==
    IF j > Len(accounts) THEN <<>>
    ELSE LET account_idx == accounts[j]
             rest == filter_map_accounts(tx, account_keys, accounts, j + 1)
         IN  IF account_idx < Len(account_keys)
             THEN <<[pubkey |-> account_keys[account_idx + 1],
                     is_writable |-> is_writable(tx, account_keys[account_idx + 1], account_idx),
                     is_signer |-> is_signer(tx, account_keys[account_idx + 1], account_idx)]>>
                  \o rest
             ELSE rest

build_instruction(tx, account_keys, instruction) ==
    [program_id |-> IF instruction.program_id_index < Len(account_keys)
                    THEN account_keys[instruction.program_id_index + 1]
                    ELSE DefaultPubkey,
     accounts |-> filter_map_accounts(tx, account_keys, instruction.accounts, 1),
     data |-> instruction.data]

InstructionMetadata(stack_height, index, absolute_path) ==
    [stack_height |-> stack_height, index |-> index, absolute_path |-> absolute_path]

\* path_stack[stack_height - 1] when stack_height > prev_height.
ResetCounter(path_stack, stack_height) == [path_stack EXCEPT ![stack_height] = 0]

\* path_stack[stack_height - 1] += 1 on a u8 that does not overflow, or that
\* wraps (a build without overflow checks).
BumpCounter(path_stack, stack_height) ==
    [path_stack EXCEPT ![stack_height] = as_u8(path_stack[stack_height] + 1)]

\* Mutant of PathPrefix: the whole path stack, not its prefix.
WholePathStack(path_stack, stack_height) == path_stack

\* path_stack[..stack_height].into()
PathPrefix(path_stack, stack_height) == SubSeq(path_stack, 1, stack_height)

\* path_stack[stack_height - 1] += 1 overflows its u8.
Overflows(inner_inst, path_stack, prev_height) ==
    /\ unwrap_or(inner_inst.stack_height, 1) <= prev_height
    /\ unwrap_or(inner_inst.stack_height, 1) > 0
    /\ path_stack[unwrap_or(inner_inst.stack_height, 1)] + 1 > 255

\* One iteration of `for inner_inst in &inner_tx.instructions`: the new
\* path stack and the entry pushed, or a panic.
inner_step(tx, overflow_checks, index, inner_inst, path_stack, prev_height) ==
    LET stack_height == unwrap_or(inner_inst.stack_height, 1)
        bad == IF stack_height > prev_height
               THEN \* path_stack[stack_height - 1] = 0: the index is checked
                    stack_height > MAX_INSTRUCTION_STACK_DEPTH
               ELSE \* stack_height - 1 underflows for 0: a panic, or an
                    \* index of usize::MAX that is out of bounds; the += 1
                    \* panics on overflow when overflow checks are on
                    \/ stack_height = 0
                    \/ path_stack[stack_height] + 1 > 255 /\ overflow_checks
        ps == IF bad THEN path_stack
              ELSE IF stack_height > prev_height
                   THEN ResetCounter(path_stack, stack_height)
                   ELSE BumpCounter(path_stack, stack_height)
    IN  [panicked |-> bad,
         path_stack |-> ps,
         prev_height |-> stack_height,
         entry |-> IF bad THEN <<>>
                   ELSE [metadata |-> InstructionMetadata(stack_height, index,
                                                          PathPrefix(ps, stack_height)),
                         instruction |-> build_instruction(tx, resolved_account_keys(tx),
                                                           inner_inst.instruction)]]

\* Mutant of InitialPathStack: path_stack[0] is left at 0.
ZeroPathStack(inner_tx) == [d \in 1..MAX_INSTRUCTION_STACK_DEPTH |-> 0]

\* let mut path_stack = [0; MAX]; path_stack[0] = inner_tx.index;
InitialPathStack(inner_tx) ==
    [d \in 1..MAX_INSTRUCTION_STACK_DEPTH |-> IF d = 1 THEN inner_tx.index ELSE 0]

\* if inner_tx.index as usize == i
GroupMatches(inner_tx, i) == inner_tx.index = i

\* The entry pushed for top-level instruction i (0-based).
TopEntry(tx, i) ==
    [metadata |-> InstructionMetadata(1, i, <<as_u8(i)>>),
     instruction |-> build_instruction(tx, resolved_account_keys(tx),
                                       tx.instructions[i + 1])]

\* The groups process_instructions iterates: none when inner is None.
inner_groups(tx) == IF tx.inner_instructions = None THEN <<>> ELSE tx.inner_instructions[1]

\* Mutant of MatchingAfter: the group loop stops at the first group that
\* matches.
MatchingFirstOnly(tx, i, g) ==
    {g2 \in (g + 1)..Len(inner_groups(tx)) :
        /\ g = 0
        /\ GroupMatches(inner_groups(tx)[g2], i)
        /\ Len(inner_groups(tx)[g2].instructions) > 0}

\* The groups after group g that pass `inner_tx.index as usize == i` and
\* whose inner loop runs at least once.
MatchingAfter(tx, i, g) ==
    {g2 \in (g + 1)..Len(inner_groups(tx)) :
        /\ GroupMatches(inner_groups(tx)[g2], i)
        /\ Len(inner_groups(tx)[g2].instructions) > 0}

Min(S) == CHOOSE x \in S : \A y \in S : x <= y

\* Where process_instructions is: top-level instruction i (0-based), and,
\* inside the inner loop of group g > 0, its k-th inner instruction with
\* the group's path stack and previous height; g = 0 is the head of the
\* outer loop. wraps records that a u8 increment has wrapped.
Cursor(i, g, k, path_stack, prev_height, wraps) ==
    [i |-> i, g |-> g, k |-> k, path_stack |-> path_stack,
     prev_height |-> prev_height, wraps |-> wraps]

StartCursor == Cursor(0, 0, 0, <<>>, 0, FALSE)

\* The loops move on from group g of top-level i: to the first inner
\* instruction of the next matching group, or to the next top-level.
Advance(tx, i, g, wraps) ==
    IF MatchingAfter(tx, i, g) # {}
    THEN Cursor(i, Min(MatchingAfter(tx, i, g)), 1,
                InitialPathStack(inner_groups(tx)[Min(MatchingAfter(tx, i, g))]), 0, wraps)
    ELSE Cursor(i + 1, 0, 0, <<>>, 0, wraps)

RECURSIVE extract_from(_, _, _)
\* extract_instructions_with_metadata as a function of the transaction, in
\* a build without overflow checks: the loops of process_instructions run
\* from cursor c with `out` pushed so far; None when they panic.
extract_from(t, c, out) ==
    IF c.g = 0
    THEN IF c.i < Len(t.instructions)
         THEN extract_from(t, Advance(t, c.i, 0, FALSE), Append(out, TopEntry(t, c.i)))
         ELSE Some(out)
    ELSE LET inner_tx == inner_groups(t)[c.g]
             s == inner_step(t, FALSE, inner_tx.index, inner_tx.instructions[c.k],
                             c.path_stack, c.prev_height)
         IN  IF s.panicked THEN None
             ELSE extract_from(t,
                               IF c.k < Len(inner_tx.instructions)
                               THEN Cursor(c.i, c.g, c.k + 1, s.path_stack, s.prev_height, FALSE)
                               ELSE Advance(t, c.i, c.g, FALSE),
                               Append(out, s.entry))

(***************************************************************************)
(* State.                                                                  *)
(***************************************************************************)
VARIABLES
    tx,            \* the transaction handed to the extractor
    pc,            \* where the program is
    cursor,        \* where process_instructions is in its loops
    instructions,  \* the InstructionsWithMetadata handed to the builder
    next,          \* 1-based position of build's for loop in instructions
    node,          \* arena of the NestedInstruction values allocated by build
    nested_ixs,    \* UnsafeNestedBuilder.nested_ixs: the top-level Vec
    level_ptrs,    \* UnsafeNestedBuilder.level_ptrs
    root,          \* the root InstructionPipe::run was called on (0: none)
    stack,         \* the frames of the recursive run, outermost first
    decoded,       \* node ids the decoder was invoked on, in order
    accepted,      \* node ids the decoder returned Some for
    processed,     \* node ids the processor was invoked on, in order
    outcome,       \* what the outermost run returned: None, or Some(result)
    filters,       \* InstructionPipe.filters: per filter, the nodes it rejects
    plugin         \* the call of PumpfunTrackingPlugin::on_transaction, if any

vars == <<tx, pc, cursor, instructions, next, node, nested_ixs, level_ptrs,
          root, stack, decoded, accepted, processed, outcome, filters, plugin>>

buildVars == <<next, node, nested_ixs, level_ptrs>>
runVars == <<root, stack, decoded, accepted, processed, outcome, filters>>
pluginVars == <<plugin>>

(***************************************************************************)
(* The hierarchy builder (utils/instruction.rs).                           *)
(***************************************************************************)

\* A Vec<NestedInstruction>: its elements (node ids), its capacity, and the
\* generation of its heap buffer (a reallocation starts a new generation).
NewVec(capacity) == [items |-> <<>>, cap |-> capacity, gen |-> 0]

\* NestedInstructions::push / Vec::push: a push into a full Vec reallocates.
VecPush(v, id) ==
    IF Len(v.items) = v.cap
    THEN [items |-> Append(v.items, id), cap |-> Max(2 * v.cap, 4), gen |-> v.gen + 1]
    ELSE [v EXCEPT !.items = Append(v.items, id)]

\* The Vec a raw pointer points into: 0 names nested_ixs, n > 0 the
\* inner_instructions of node n.
VecOf(nodes, top, v) == IF v = 0 THEN top ELSE nodes[v].inner_instructions

\* Mutant of PtrToLast: the element before the last one.
PtrToSecondLast(vec, v) == [vec |-> v, slot |-> Max(Len(vec.items) - 1, 1), gen |-> vec.gen]

\* Mutant of PtrToLast: first_mut() in place of last_mut().
PtrToFirst(vec, v) == [vec |-> v, slot |-> 1, gen |-> vec.gen]

\* last_mut().unwrap_unchecked() as *mut _, taken on Vec number v.
PtrToLast(vec, v) == [vec |-> v, slot |-> Len(vec.items), gen |-> vec.gen]

\* A raw pointer whose buffer was reallocated since it was taken.
Dangling(nodes, top, p) == VecOf(nodes, top, p.vec).gen # p.gen

\* The node a valid raw pointer refers to.
Pointee(nodes, top, p) == VecOf(nodes, top, p.vec).items[p.slot]

\* Mutant of estimated_capacity: the filter counts the entries of stack
\* height 2.
estimated_children(list) ==
    Cardinality({k \in 1..Len(list) : list[k].metadata.stack_height = 2})

\* The count of `meta.stack_height == 1` in NestedInstructions::from.
estimated_capacity(list) ==
    Cardinality({k \in 1..Len(list) : list[k].metadata.stack_height = 1})

NoLevelPtrs == [l \in 1..MAX_INSTRUCTION_STACK_DEPTH |-> None]

\* Mutant of HeightAsserts: the upper assert! is missing.
HeightAssertsLowerOnly(stack_height) == stack_height > 0

\* The two assert! of build.
HeightAsserts(stack_height) ==
    stack_height > 0 /\ stack_height <= MAX_INSTRUCTION_STACK_DEPTH

\* Mutant of ClearFrom: the deeper levels are not cleared.
ClearNothing(ptrs, stack_height) == ptrs

\* for ptr in &mut self.level_ptrs[stack_height..] { *ptr = None }
ClearFrom(ptrs, stack_height) ==
    [l \in 1..MAX_INSTRUCTION_STACK_DEPTH |-> IF l > stack_height THEN None ELSE ptrs[l]]

\* Mutant of ParentLevel: the level above the parent's.
GrandparentLevel(stack_height) == Max(stack_height - 2, 1)

\* self.level_ptrs[stack_height - 2], as a 1-based level.
ParentLevel(stack_height) == stack_height - 1

NewNode(entry) ==
    [metadata |-> entry.metadata,
     instruction |-> entry.instruction,
     inner_instructions |-> NewVec(0)]

\* Mutant of IsTopLevel: the root test is off by one.
IsTopLevelOrSecond(stack_height) == stack_height <= 2

\* The branch `if stack_height == 1`.
IsTopLevel(stack_height) == stack_height = 1

\* NestedInstructions::from: the builder sized by the count of roots.
From ==
    /\ pc = "extracted"
    /\ pc' = "building"
    /\ next' = 1
    /\ node' = <<>>
    /\ nested_ixs' = NewVec(estimated_capacity(instructions))
    /\ level_ptrs' = NoLevelPtrs
    /\ UNCHANGED <<tx, cursor, instructions>>
    /\ UNCHANGED runVars
    /\ UNCHANGED pluginVars

\* UnsafeNestedBuilder::new(capacity) called directly.
New ==
    /\ pc = "extracted"
    /\ \E capacity \in 0..MaxCap :
         nested_ixs' = NewVec(capacity)
    /\ pc' = "building"
    /\ next' = 1
    /\ node' = <<>>
    /\ level_ptrs' = NoLevelPtrs
    /\ UNCHANGED <<tx, cursor, instructions>>
    /\ UNCHANGED runVars
    /\ UNCHANGED pluginVars

\* One iteration of build's for loop whose assert! fails.
BuildPanic ==
    /\ pc = "building"
    /\ next <= Len(instructions)
    /\ ~HeightAsserts(instructions[next].metadata.stack_height)
    /\ pc' = "panicked"
    /\ UNCHANGED <<tx, cursor, instructions, next, node, nested_ixs, level_ptrs>>
    /\ UNCHANGED runVars
    /\ UNCHANGED pluginVars

\* One iteration of build's for loop on a top-level entry.
BuildRoot ==
    /\ pc = "building"
    /\ next <= Len(instructions)
    /\ HeightAsserts(instructions[next].metadata.stack_height)
    /\ IsTopLevel(instructions[next].metadata.stack_height)
    /\ node' = Append(node, NewNode(instructions[next]))
    /\ nested_ixs' = VecPush(nested_ixs, Len(node) + 1)
    /\ level_ptrs' = [ClearFrom(level_ptrs, instructions[next].metadata.stack_height)
                        EXCEPT ![1] = Some(PtrToLast(nested_ixs', 0))]
    /\ next' = next + 1
    /\ UNCHANGED <<tx, pc, cursor, instructions>>
    /\ UNCHANGED runVars
    /\ UNCHANGED pluginVars

\* One iteration of build's for loop on an entry of stack height > 1 whose
\* parent level has a tail: the entry becomes the last child of that tail.
BuildChild ==
    /\ pc = "building"
    /\ next <= Len(instructions)
    /\ LET stack_height == instructions[next].metadata.stack_height
           cleared == ClearFrom(level_ptrs, stack_height)
       IN  /\ HeightAsserts(stack_height)
           /\ ~IsTopLevel(stack_height)
           /\ cleared[ParentLevel(stack_height)] # None
           /\ LET parent_ptr == cleared[ParentLevel(stack_height)][1]
              IN  IF Dangling(node, nested_ixs, parent_ptr)
                  THEN \* a write through a dangling pointer: undefined
                       /\ pc' = "undefined"
                       /\ UNCHANGED <<next, node, nested_ixs, level_ptrs>>
                  ELSE
                    LET parent == Pointee(node, nested_ixs, parent_ptr)
                        id == Len(node) + 1
                        pushed == VecPush(node[parent].inner_instructions, id)
                    IN  /\ node' = Append([node EXCEPT ![parent].inner_instructions = pushed],
                                          NewNode(instructions[next]))
                        /\ level_ptrs' = [cleared EXCEPT ![stack_height] =
                                            Some(PtrToLast(pushed, parent))]
                        /\ next' = next + 1
                        /\ UNCHANGED <<pc, nested_ixs>>
    /\ UNCHANGED <<tx, cursor, instructions>>
    /\ UNCHANGED runVars
    /\ UNCHANGED pluginVars

\* One iteration of build's for loop on an entry of stack height > 1 whose
\* parent level has no tail: neither branch is taken and new_instruction is
\* dropped.
BuildSkip ==
    /\ pc = "building"
    /\ next <= Len(instructions)
    /\ LET stack_height == instructions[next].metadata.stack_height
       IN  /\ HeightAsserts(stack_height)
           /\ ~IsTopLevel(stack_height)
           /\ ClearFrom(level_ptrs, stack_height)[ParentLevel(stack_height)] = None
           /\ level_ptrs' = ClearFrom(level_ptrs, stack_height)
    /\ next' = next + 1
    /\ UNCHANGED <<tx, pc, cursor, instructions, node, nested_ixs>>
    /\ UNCHANGED runVars
    /\ UNCHANGED pluginVars

\* The end of build: NestedInstructions(self.nested_ixs); the builder and
\* its level_ptrs are gone.
BuildReturn ==
    /\ pc = "building"
    /\ next > Len(instructions)
    /\ pc' = "built"
    /\ level_ptrs' = NoLevelPtrs
    /\ UNCHANGED <<tx, cursor, instructions, next, node, nested_ixs>>
    /\ UNCHANGED runVars
    /\ UNCHANGED pluginVars

(***************************************************************************)
(* Reading a forest.                                                       *)
(***************************************************************************)

\* The children (node ids) of node n, in order.
Children(nodes, n) == nodes[n].inner_instructions.items

RECURSIVE Preorder(_, _)
\* The pre-order of the trees rooted at ids, as node ids.
Preorder(nodes, ids) ==
    IF ids = <<>> THEN <<>>
    ELSE <<ids[1]>> \o Preorder(nodes, Children(nodes, ids[1])) \o Preorder(nodes, Tail(ids))

\* The (metadata, instruction) pair a node holds.
EntryOf(nodes, n) == [metadata |-> nodes[n].metadata, instruction |-> nodes[n].instruction]

\* The forest flattened in pre-order, as a flat list.
Flatten(nodes, top) ==
    [k \in 1..Len(Preorder(nodes, top.items)) |-> EntryOf(nodes, Preorder(nodes, top.items)[k])]

(***************************************************************************)
(* The recursive pipeline (InstructionPipe::run).                          *)
(***************************************************************************)

Ok == [ok |-> TRUE, err |-> 0]
\* The CarbonResult error the processor returned on node n.
Err(n) == [ok |-> FALSE, err |-> n]

\* A frame of run: its node, where it is ("decode": about to decode,
\* "process": the processor call has started, "pending": the processor
\* future is suspended, "children": iterating the children) and the next
\* child to run.
Frame(n) == [node |-> n, at |-> "decode", child |-> 1]

Top == stack[Len(stack)]
SetTop(f) == [stack EXCEPT ![Len(stack)] = f]
Pop == SubSeq(stack, 1, Len(stack) - 1)

\* The filter lists a pipe is constructed with: empty, or one filter that
\* rejects the update of one node (a filter is the set of nodes it rejects).
FilterLists(nodes) == {<<>>} \cup {<<{n}>> : n \in 1..Len(nodes)}

\* The caller picks a root of the forest and calls run on it, on a pipe
\* with some filter list.
RunStart ==
    /\ pc = "built"
    /\ \E r \in 1..Len(nested_ixs.items) :
         /\ root' = nested_ixs.items[r]
         /\ stack' = <<Frame(nested_ixs.items[r])>>
    /\ pc' = "running"
    /\ decoded' = <<>>
    /\ accepted' = {}
    /\ processed' = <<>>
    /\ outcome' = None
    /\ filters' \in FilterLists(node)
    /\ UNCHANGED <<tx, cursor, instructions>>
    /\ UNCHANGED buildVars
    /\ UNCHANGED pluginVars

\* Mutant of NotApplicable: a node the decoder declines ends its run.
NotApplicableSkips(nodes, f) ==
    [f EXCEPT !.at = "children", !.child = Len(Children(nodes, f.node)) + 1]

\* The `if let Some(..)` is not taken: run goes on to the for loop over the
\* children.
NotApplicable(nodes, f) == [f EXCEPT !.at = "children"]

\* self.decoder.decode_instruction(&nested_instruction.instruction): Some
\* starts the processor call, None goes on to the children.
Decode ==
    /\ pc = "running"
    /\ outcome = None
    /\ Top.at = "decode"
    /\ decoded' = Append(decoded, Top.node)
    /\ \E some \in BOOLEAN :
         IF some
         THEN /\ accepted' = accepted \cup {Top.node}
              /\ processed' = Append(processed, Top.node)
              /\ stack' = SetTop([Top EXCEPT !.at = "process"])
         ELSE /\ stack' = SetTop(NotApplicable(node, Top))
              /\ UNCHANGED <<accepted, processed>>
    /\ UNCHANGED <<tx, pc, cursor, instructions, root, outcome, filters>>
    /\ UNCHANGED buildVars
    /\ UNCHANGED pluginVars

\* Mutant of ClonedInput: the processor is handed the node's own children
\* list, so that draining it empties the tree's.
BorrowedInput(nodes, n, drained) ==
    IF drained THEN [nodes EXCEPT ![n].inner_instructions.items = <<>>] ELSE nodes

\* The processor is handed metadata.clone(), inner_instructions.clone() and
\* instruction.clone(): whether or not it drains the children list it
\* owns, the tree keeps its own.
ClonedInput(nodes, n, drained) == nodes

\* The processor call of a frame is in flight.
InFlight(f) == f.at \in {"process", "pending"}

\* The future of self.processor.process(..) returns Poll::Pending: run is
\* suspended at its .await.
ProcessPending ==
    /\ pc = "running"
    /\ outcome = None
    /\ Top.at = "process"
    /\ stack' = SetTop([Top EXCEPT !.at = "pending"])
    /\ UNCHANGED <<tx, pc, cursor, instructions, root, decoded, accepted, processed, outcome, filters>>
    /\ UNCHANGED buildVars
    /\ UNCHANGED pluginVars

\* self.processor.process(..).await returns Ok(()).
ProcessOk ==
    /\ pc = "running"
    /\ outcome = None
    /\ InFlight(Top)
    /\ stack' = SetTop([Top EXCEPT !.at = "children"])
    /\ \E drained \in BOOLEAN : node' = ClonedInput(node, Top.node, drained)
    /\ UNCHANGED <<tx, pc, cursor, instructions, root, decoded, accepted, processed, outcome, filters>>
    /\ UNCHANGED <<next, nested_ixs, level_ptrs>>
    /\ UNCHANGED pluginVars

\* Mutant of OnProcessError: the error is replaced by another one.
OnProcessErrorOther(n) == Some(Err(0))

\* What run does with the error of its processor call: `?` returns it.
OnProcessError(n) == Some(Err(n))

\* self.processor.process(..).await returns Err: this run returns it.
ProcessErr ==
    /\ pc = "running"
    /\ outcome = None
    /\ InFlight(Top)
    /\ outcome' = OnProcessError(Top.node)
    /\ stack' = Pop
    /\ pc' = IF Len(stack) = 1 THEN "returned" ELSE pc
    /\ \E drained \in BOOLEAN : node' = ClonedInput(node, Top.node, drained)
    /\ UNCHANGED <<tx, cursor, instructions, root, decoded, accepted, processed, filters>>
    /\ UNCHANGED <<next, nested_ixs, level_ptrs>>
    /\ UNCHANGED pluginVars

\* The caller drops the future of run while it is suspended at the .await
\* of a processor call: every frame is dropped, nothing else runs.
Abandon ==
    /\ pc = "running"
    /\ outcome = None
    /\ Top.at = "pending"
    /\ pc' = "abandoned"
    /\ stack' = <<>>
    /\ UNCHANGED <<tx, cursor, instructions, root, decoded, accepted, processed, outcome, filters>>
    /\ UNCHANGED buildVars
    /\ UNCHANGED pluginVars

\* Mutant of NextChild: the children are run last to first.
NextChildReversed(nodes, f) ==
    Children(nodes, f.node)[Len(Children(nodes, f.node)) + 1 - f.child]

\* The child the for loop of a frame runs next.
NextChild(nodes, f) == Children(nodes, f.node)[f.child]

\* Mutant of ChildrenLoopReached: the loop starts once the node is decoded,
\* not once its processor call has returned.
ChildrenLoopEager(f) == f.at # "decode"

\* A frame is in the for loop over its children: the processor call, if
\* any, has been awaited.
ChildrenLoopReached(f) == f.at = "children"

\* for nested_inner_instruction in ..inner_instructions.iter(): the next
\* child is run.
Descend ==
    /\ pc = "running"
    /\ outcome = None
    /\ ChildrenLoopReached(Top)
    /\ Top.child <= Len(Children(node, Top.node))
    /\ stack' = Append(SetTop([Top EXCEPT !.child = Top.child + 1]),
                       Frame(NextChild(node, Top)))
    /\ UNCHANGED <<tx, pc, cursor, instructions, root, decoded, accepted, processed, outcome, filters>>
    /\ UNCHANGED buildVars
    /\ UNCHANGED pluginVars

\* The for loop is over: this run returns Ok(()).
ReturnOk ==
    /\ pc = "running"
    /\ outcome = None
    /\ Top.at = "children"
    /\ Top.child > Len(Children(node, Top.node))
    /\ stack' = Pop
    /\ IF Len(stack) = 1
       THEN pc' = "returned" /\ outcome' = Some(Ok)
       ELSE UNCHANGED <<pc, outcome>>
    /\ UNCHANGED <<tx, cursor, instructions, root, decoded, accepted, processed, filters>>
    /\ UNCHANGED buildVars
    /\ UNCHANGED pluginVars

\* self.run(child).await? in a caller whose child run returned Err: the
\* caller returns the error too.
Propagate ==
    /\ pc = "running"
    /\ outcome # None
    /\ stack # <<>>
    /\ stack' = Pop
    /\ pc' = IF Len(stack) = 1 THEN "returned" ELSE pc
    /\ UNCHANGED <<tx, cursor, instructions, root, decoded, accepted, processed, outcome, filters>>
    /\ UNCHANGED buildVars
    /\ UNCHANGED pluginVars

(***************************************************************************)
(* Specifications.                                                         *)
(***************************************************************************)

NoRun ==
    /\ root = 0
    /\ stack = <<>>
    /\ decoded = <<>>
    /\ accepted = {}
    /\ processed = <<>>
    /\ outcome = None
    /\ filters = <<>>

\* PumpfunTrackingPlugin::new / with_processor: the plugin holds its mint;
\* on_transaction has not been called, the callback has seen no event.
Plugin(mint) == [called |-> FALSE, mint |-> mint, position |-> 1, trades |-> {},
                 events |-> <<>>, result |-> None]

\* No plugin takes part: mint 0 names no key.
NoPlugin == plugin = Plugin(0)

NoBuilder ==
    /\ next = 1
    /\ node = <<>>
    /\ nested_ixs = NewVec(0)
    /\ level_ptrs = NoLevelPtrs

\* A transaction arrives.
Init ==
    /\ \E n \in 0..MaxTop :
         \/ tx = Transaction("legacy", n, None)
         \/ tx = Transaction("legacy", n, Some(<<>>))
         \/ \E L \in 0..MaxInner, idx1 \in 0..n : \E hs \in [1..L -> Hints] :
              \/ tx = Transaction("legacy", n, Some(MakeGroups(1, idx1, 0, hs, L)))
              \/ \E cut \in 0..L, idx2 \in 0..n :
                   tx = Transaction("legacy", n, Some(MakeGroups(2, idx1, idx2, hs, cut)))
    /\ pc = "extracting"
    /\ cursor = StartCursor
    /\ instructions = <<>>
    /\ NoBuilder
    /\ NoRun
    /\ NoPlugin

\* The outer loop of process_instructions pushes top-level instruction i.
ExtractTop ==
    /\ pc = "extracting"
    /\ cursor.g = 0
    /\ cursor.i < Len(tx.instructions)
    /\ instructions' = Append(instructions, TopEntry(tx, cursor.i))
    /\ cursor' = Advance(tx, cursor.i, 0, cursor.wraps)
    /\ UNCHANGED <<tx, pc>>
    /\ UNCHANGED buildVars
    /\ UNCHANGED runVars
    /\ UNCHANGED pluginVars

\* The inner loop of process_instructions handles one inner instruction,
\* in a build with or without overflow checks: it pushes its entry, or
\* panics and the list is dropped.
ExtractInner ==
    /\ pc = "extracting"
    /\ cursor.g > 0
    /\ \E overflow_checks \in (IF cursor.wraps THEN {FALSE} ELSE BOOLEAN) :
         LET inner_tx == inner_groups(tx)[cursor.g]
             s == inner_step(tx, overflow_checks, inner_tx.index,
                             inner_tx.instructions[cursor.k],
                             cursor.path_stack, cursor.prev_height)
             wraps == cursor.wraps \/ Overflows(inner_tx.instructions[cursor.k],
                                                cursor.path_stack, cursor.prev_height)
         IN  IF s.panicked
             THEN /\ pc' = "extract_panicked"
                  /\ instructions' = <<>>
                  /\ UNCHANGED cursor
             ELSE /\ instructions' = Append(instructions, s.entry)
                  /\ cursor' = IF cursor.k < Len(inner_tx.instructions)
                               THEN Cursor(cursor.i, cursor.g, cursor.k + 1,
                                           s.path_stack, s.prev_height, wraps)
                               ELSE Advance(tx, cursor.i, cursor.g, wraps)
                  /\ UNCHANGED pc
    /\ UNCHANGED tx
    /\ UNCHANGED buildVars
    /\ UNCHANGED runVars
    /\ UNCHANGED pluginVars

\* The outer loop is over: extract_instructions_with_metadata returns.
ExtractReturn ==
    /\ pc = "extracting"
    /\ cursor.g = 0
    /\ cursor.i >= Len(tx.instructions)
    /\ pc' = "extracted"
    /\ UNCHANGED <<tx, cursor, instructions>>
    /\ UNCHANGED buildVars
    /\ UNCHANGED runVars
    /\ UNCHANGED pluginVars

Next ==
    \/ ExtractTop
    \/ ExtractInner
    \/ ExtractReturn
    \/ From
    \/ BuildRoot
    \/ BuildChild
    \/ BuildSkip
    \/ BuildReturn

Spec == Init /\ [][Next]_vars

\* A flat list handed to the builder directly: entry k has stack height
\* hs[k] and payload <<k>>.
DirectList(hs) ==
    [k \in 1..Len(hs) |->
        [metadata |-> InstructionMetadata(hs[k], 0, <<>>),
         instruction |-> [program_id |-> 1, accounts |-> <<>>, data |-> <<k>>]]]

\* The stack heights of a direct list: 0, in range, and one above.
Heights == 0..(MAX_INSTRUCTION_STACK_DEPTH + 1)

InitList(maxLen) ==
    /\ tx = NoTransaction
    /\ pc = "extracted"
    /\ cursor = StartCursor
    /\ \E L \in 0..maxLen : \E hs \in [1..L -> Heights] : instructions = DirectList(hs)
    /\ NoBuilder
    /\ NoRun
    /\ NoPlugin

InitBuild == InitList(MaxLen)

NextBuild ==
    \/ From
    \/ New
    \/ BuildPanic
    \/ BuildRoot
    \/ BuildChild
    \/ BuildSkip
    \/ BuildReturn

SpecBuild == InitBuild /\ [][NextBuild]_vars

InitRun == InitList(MaxRunLen)

NextRun ==
    \/ From
    \/ BuildPanic
    \/ BuildRoot
    \/ BuildChild
    \/ BuildSkip
    \/ BuildReturn
    \/ RunStart
    \/ Decode
    \/ ProcessPending
    \/ ProcessOk
    \/ ProcessErr
    \/ Abandon
    \/ Descend
    \/ ReturnOk
    \/ Propagate

SpecRun == InitRun /\ [][NextRun]_vars

(***************************************************************************)
(* Properties of the builder, checked under SpecBuild.                     *)
(***************************************************************************)

StackHeight(list, k) == list[k].metadata.stack_height

InRange(h) == h >= 1 /\ h <= MAX_INSTRUCTION_STACK_DEPTH

\* A well-formed flat list: it starts at stack height 1, every height is in
\* range and none exceeds its predecessor's by more than 1.
WellFormed(list) ==
    /\ \A k \in 1..Len(list) : InRange(StackHeight(list, k))
    /\ Len(list) > 0 => StackHeight(list, 1) = 1
    /\ \A k \in 2..Len(list) : StackHeight(list, k) <= StackHeight(list, k - 1) + 1

\* The positions of the malformed entries of a flat list.
Malformed(list) == {k \in 1..Len(list) : ~InRange(StackHeight(list, k))}

\* The roots of the forest, as (metadata, instruction) pairs.
Roots == [r \in 1..Len(nested_ixs.items) |-> EntryOf(node, nested_ixs.items[r])]

IsHeight1(entry) == entry.metadata.stack_height = 1

\* C1 (round trip): build completes on every well-formed flat list, and the
\* pre-order flattening of the forest it returns is the input list, entry
\* for entry and in the same order.
C1_RoundTrip ==
    WellFormed(instructions) =>
        /\ pc \notin {"panicked", "undefined"}
        /\ pc = "built" => Flatten(node, nested_ixs) = instructions

\* A well-formed list with two roots and a node at depth 3 has been built.
C1_Witness ==
    /\ pc = "built"
    /\ WellFormed(instructions)
    /\ Len(nested_ixs.items) >= 2
    /\ \E k \in 1..Len(instructions) : StackHeight(instructions, k) = 3

\* C2 (node conservation), as claimed: whenever build completes, every input
\* entry is in the returned forest exactly once and the forest has as many
\* nodes as the input has entries, for any order of stack heights.
C2_NodeConservation ==
    pc = "built" =>
        /\ Len(Flatten(node, nested_ixs)) = Len(instructions)
        /\ \A k \in 1..Len(instructions) :
             Cardinality({j \in 1..Len(Flatten(node, nested_ixs)) :
                            Flatten(node, nested_ixs)[j] = instructions[k]}) = 1

\* C3 (malformed stack height is fatal): when some entry has stack height 0
\* or above the maximum, build never gets past the first such entry and
\* never returns a forest; it panics at that entry and only there.
C3_MalformedFatal ==
    /\ Malformed(instructions) # {} =>
         /\ pc # "built"
         /\ \A k \in Malformed(instructions) : next <= k
    /\ pc = "panicked" =>
         /\ next \in Malformed(instructions)
         /\ \A k \in Malformed(instructions) : next <= k

\* Build panicked at a malformed entry that follows accepted entries.
C3_Witness ==
    /\ pc = "panicked"
    /\ next >= 3
    /\ Len(node) >= 2
    /\ StackHeight(instructions, next) > MAX_INSTRUCTION_STACK_DEPTH

\* C4 (forest size): when build completes, the roots of the forest are the
\* entries of stack height 1, as many and in the same order.
C4_ForestSize ==
    pc = "built" => Roots = SelectSeq(instructions, IsHeight1)

\* A forest with two roots and at least one entry that is no root.
C4_Witness ==
    /\ pc = "built"
    /\ Len(nested_ixs.items) >= 2
    /\ Len(instructions) > Len(nested_ixs.items)

(***************************************************************************)
(* Wide transactions: more top-level instructions, or more siblings in one *)
(* inner group, than a u8 counts.                                          *)
(***************************************************************************)

WideCounts == (WideTop - WideSpan)..WideTop

InitWide ==
    /\ \E n \in WideCounts :
         \/ tx = Transaction("legacy", n, None)
         \/ \E L \in WideCounts :
              tx = Transaction("legacy", n,
                     Some(<<InnerGroup(1, 0, [k \in 1..L |-> Some(2)])>>))
    /\ pc = "extracting"
    /\ cursor = StartCursor
    /\ instructions = <<>>
    /\ NoBuilder
    /\ NoRun
    /\ NoPlugin

NextWide ==
    \/ ExtractTop
    \/ ExtractInner
    \/ ExtractReturn

SpecWide == InitWide /\ [][NextWide]_vars

(***************************************************************************)
(* Properties of the extractor and of the forest built from its output,    *)
(* checked under Spec (and SpecWide where named).                          *)
(***************************************************************************)

\* The groups of a transaction (none when inner_instructions is None).
GroupsOf(t) == IF t.inner_instructions = None THEN <<>> ELSE t.inner_instructions[1]

RECURSIVE SumLen(_, _)
\* The number of inner instructions in the groups numbered in S.
SumLen(groups, S) ==
    IF S = {} THEN 0
    ELSE Len(groups[Min(S)].instructions) + SumLen(groups, S \ {Min(S)})

\* The place the claim gives top-level instruction i (0-based) in the
\* output: after the earlier top-level instructions and all their groups.
PlaceOfTop(t, i) ==
    1 + i + SumLen(GroupsOf(t), {g \in 1..Len(GroupsOf(t)) : GroupsOf(t)[g].index < i})

\* The place the claim gives inner instruction k of group g: after its
\* top-level instruction and the earlier groups tagged with the same index.
PlaceOfInner(t, g, k) ==
    PlaceOfTop(t, GroupsOf(t)[g].index)
    + SumLen(GroupsOf(t), {g2 \in 1..(g - 1) : GroupsOf(t)[g2].index = GroupsOf(t)[g].index})
    + k

\* The groups tagged with the index of a top-level instruction.
TaggedGroups(t) ==
    {g \in 1..Len(GroupsOf(t)) : GroupsOf(t)[g].index < Len(t.instructions)}

\* C5 (extractor output order), as claimed: the output lists, for each
\* top-level instruction i in increasing i, the top-level instruction with
\* stack height 1, index i and path [i], then the inner instructions of the
\* groups tagged i in the order supplied, each with index i and its hint (1
\* when absent) as stack height, and nothing else.
C5_OutputOrder ==
    pc = "extracted" =>
        /\ Len(instructions) = Len(tx.instructions) + SumLen(GroupsOf(tx), TaggedGroups(tx))
        /\ \A i \in 0..(Len(tx.instructions) - 1) :
             /\ instructions[PlaceOfTop(tx, i)].metadata
                  = [stack_height |-> 1, index |-> i, absolute_path |-> <<i>>]
             /\ instructions[PlaceOfTop(tx, i)].instruction.data = tx.instructions[i + 1].data
        /\ \A g \in TaggedGroups(tx) : \A k \in 1..Len(GroupsOf(tx)[g].instructions) :
             /\ instructions[PlaceOfInner(tx, g, k)].metadata.index = GroupsOf(tx)[g].index
             /\ instructions[PlaceOfInner(tx, g, k)].metadata.stack_height
                  = (IF GroupsOf(tx)[g].instructions[k].stack_height = None THEN 1
                     ELSE GroupsOf(tx)[g].instructions[k].stack_height[1])
             /\ instructions[PlaceOfInner(tx, g, k)].instruction.data
                  = GroupsOf(tx)[g].instructions[k].instruction.data

DepthOk(metadata) ==
    /\ Len(metadata.absolute_path) = metadata.stack_height
    /\ InRange(metadata.stack_height)

\* C6 (depth invariant): whatever the hints, every entry of the list the
\* extractor returns and every node of the forest built from it has a path
\* as long as its stack height, and a stack height in 1..MAX; an extraction
\* that panics returns no list.
C6_DepthInvariant ==
    /\ \A k \in 1..Len(instructions) : DepthOk(instructions[k].metadata)
    /\ \A n \in 1..Len(node) : DepthOk(node[n].metadata)
    /\ pc = "extract_panicked" => instructions = <<>>

\* A forest was built from the output for a transaction whose one group is
\* extracted and holds an absent hint and a hint of 2.
C6_Witness ==
    /\ pc = "built"
    /\ Len(GroupsOf(tx)) = 1
    /\ GroupsOf(tx)[1].index < Len(tx.instructions)
    /\ \E k \in 1..Len(GroupsOf(tx)[1].instructions) :
         GroupsOf(tx)[1].instructions[k].stack_height = None
    /\ \E n \in 1..Len(node) : node[n].metadata.stack_height = 2
    /\ Len(node) = Len(instructions)
    /\ Len(instructions) = Len(tx.instructions) + Len(GroupsOf(tx)[1].instructions)

\* The latest position before k whose entry has stack height d (0: none).
MostRecentAt(list, k, d) ==
    IF \E j \in 1..(k - 1) : StackHeight(list, j) = d
    THEN CHOOSE j \in 1..(k - 1) :
            /\ StackHeight(list, j) = d
            /\ \A j2 \in (j + 1)..(k - 1) : StackHeight(list, j2) # d
    ELSE 0

\* C7 (path monotonicity), as claimed: for consecutive entries of the
\* extractor's output with stack heights d1 then d2, if d2 > d1 the second
\* path ends in 0, and if d2 <= d1 its element at depth d2 is 1 more than
\* that of the most recent earlier entry of depth d2.
C7_PathMonotonicity ==
    pc = "extracted" =>
        \A k \in 2..Len(instructions) :
            IF StackHeight(instructions, k) > StackHeight(instructions, k - 1)
            THEN Last(instructions[k].metadata.absolute_path) = 0
            ELSE MostRecentAt(instructions, k, StackHeight(instructions, k)) # 0 =>
                   instructions[k].metadata.absolute_path[StackHeight(instructions, k)]
                     = instructions[MostRecentAt(instructions, k, StackHeight(instructions, k))]
                         .metadata.absolute_path[StackHeight(instructions, k)] + 1

\* Inner instructions in protocol pre-order: each group's first hint is 2,
\* every hint is present and >= 2, each is at most the previous one plus 1.
ProtocolPreOrder(t) ==
    \A g \in 1..Len(GroupsOf(t)) :
        LET insts == GroupsOf(t)[g].instructions
        IN  /\ \A k \in 1..Len(insts) :
                 insts[k].stack_height # None /\ insts[k].stack_height[1] >= 2
            /\ Len(insts) > 0 => insts[1].stack_height = Some(2)
            /\ \A k \in 2..Len(insts) :
                 insts[k].stack_height[1] <= insts[k - 1].stack_height[1] + 1

\* C8 (absolute path is the sibling-rank path), as claimed: in the forest
\* built from the output for a transaction in protocol pre-order, root
\* number r has path [r] and the k-th child of a node with path p has path
\* p followed by k.
C8_SiblingRankPath ==
    (pc = "built" /\ ProtocolPreOrder(tx)) =>
        /\ \A r \in 1..Len(nested_ixs.items) :
             node[nested_ixs.items[r]].metadata.absolute_path = <<r - 1>>
        /\ \A n \in 1..Len(node) : \A k \in 1..Len(Children(node, n)) :
             node[Children(node, n)[k]].metadata.absolute_path
               = Append(node[n].metadata.absolute_path, k - 1)

\* The payloads of the nodes of the tree rooted at node n.
PayloadsUnder(n) ==
    {node[Preorder(node, <<n>>)[j]].instruction.data :
        j \in 1..Len(Preorder(node, <<n>>))}

\* C9 (one tree per top-level instruction), as claimed: the forest built
\* from the extractor's output has one root per top-level instruction, root
\* i being top-level instruction i, and every inner instruction of a group
\* tagged i is in the tree of root i, whatever hints the extractor accepted.
C9_OneTreePerTopLevel ==
    pc = "built" =>
        /\ Len(nested_ixs.items) = Len(tx.instructions)
        /\ \A r \in 1..Len(nested_ixs.items) :
             r <= Len(tx.instructions) =>
               /\ node[nested_ixs.items[r]].instruction.data = tx.instructions[r].data
               /\ node[nested_ixs.items[r]].metadata.index = r - 1
        /\ \A g \in 1..Len(GroupsOf(tx)) :
             GroupsOf(tx)[g].index < Len(nested_ixs.items) =>
               \A k \in 1..Len(GroupsOf(tx)[g].instructions) :
                 GroupsOf(tx)[g].instructions[k].instruction.data
                   \in PayloadsUnder(nested_ixs.items[GroupsOf(tx)[g].index + 1])

(***************************************************************************)
(* Properties of the pipeline, checked under SpecRun.                      *)
(***************************************************************************)

IsPrefix(a, b) == Len(a) <= Len(b) /\ SubSeq(b, 1, Len(a)) = a

IsAccepted(n) == n \in accepted

\* C10 (pre-order traversal): as long as no processor call has failed, the
\* decoder has been invoked on an initial part of the pre-order of the tree,
\* once per node, and the processor on exactly the accepted nodes among
\* them, in that order; when run returns Ok the decoder has been invoked on
\* the whole pre-order.
C10_PreOrderTraversal ==
    (pc \in {"running", "returned"} /\ (outcome = None \/ outcome = Some(Ok))) =>
        /\ IsPrefix(decoded, Preorder(node, <<root>>))
        /\ processed = SelectSeq(decoded, IsAccepted)
        /\ outcome = Some(Ok) => decoded = Preorder(node, <<root>>)

\* run returned Ok on a tree of four nodes and depth 3 whose root has two
\* children, the decoder having accepted some nodes and not others.
C10_Witness ==
    /\ pc = "returned"
    /\ outcome = Some(Ok)
    /\ Len(decoded) >= 4
    /\ Len(Children(node, root)) >= 2
    /\ \E n \in 1..Len(node) : node[n].metadata.stack_height = 3
    /\ processed # <<>>
    /\ Len(processed) < Len(decoded)

\* A processor call has failed on node n and run has stopped or is
\* unwinding.
FailedOn(n) == outcome = Some(Err(n))

\* C11 (fail-fast propagation): once the processor has failed on a node,
\* that node stays the last one the decoder and the processor were invoked
\* on (the calls made are the pre-order up to it, nothing after it), and
\* the error the outermost run returns is the error of that node.
C11_FailFast ==
    \A n \in 0..Len(node) :
        (pc \in {"running", "returned"} /\ FailedOn(n)) =>
            /\ n # 0
            /\ Last(decoded) = n
            /\ Last(processed) = n
            /\ IsPrefix(decoded, Preorder(node, <<root>>))
            /\ processed = SelectSeq(decoded, IsAccepted)

\* The outermost run has returned the error of a node that is not the
\* root, has a child of its own and a later sibling, none of them visited.
C11_Witness ==
    /\ pc = "returned"
    /\ \E n \in 1..Len(node) :
         /\ FailedOn(n)
         /\ n # root
         /\ Children(node, n) # <<>>
         /\ Len(Preorder(node, <<root>>)) >= Len(decoded) + 2

InSeq(x, s) == \E k \in 1..Len(s) : s[k] = x

\* The nodes of the subtree of n.
Subtree(n) == {Preorder(node, <<n>>)[k] : k \in 1..Len(Preorder(node, <<n>>))}

\* The nodes the decoder returned None for.
Declined == {n \in 1..Len(node) : InSeq(n, decoded) /\ n \notin accepted}

\* No processor call has failed and the run was not abandoned.
Undisturbed == pc \in {"running", "returned"} /\ (outcome = None \/ outcome = Some(Ok))

\* C12 (decode-not-applicable is local): a node the decoder declines is
\* never handed to the processor and never is the node run fails on, and
\* its children are visited all the same: unless a processor call fails or
\* the run is abandoned, each child is decoded before the traversal leaves
\* the node's subtree, and has been decoded when run returns Ok.
C12_NotApplicableIsLocal ==
    pc \in {"running", "returned", "abandoned"} =>
      \A n \in Declined :
        /\ ~InSeq(n, processed)
        /\ ~FailedOn(n)
        /\ Undisturbed =>
             \A k \in 1..Len(Children(node, n)) :
               /\ InSeq(Children(node, n)[k], decoded) \/ Last(decoded) \in Subtree(n)
               /\ pc = "returned" => InSeq(Children(node, n)[k], decoded)

\* run returned Ok after the decoder declined a node whose child it
\* accepted: the child was decoded and processed.
C12_Witness ==
    /\ pc = "returned"
    /\ outcome = Some(Ok)
    /\ \E n \in Declined :
         \E k \in 1..Len(Children(node, n)) :
           /\ Children(node, n)[k] \in accepted
           /\ InSeq(Children(node, n)[k], processed)

\* Some filter of the pipe rejects the update of node n.
Rejected(n) == \E k \in 1..Len(filters) : n \in filters[k]

\* C13 (filter semantics): with an empty filter list the processor is
\* invoked on every node the decoder accepts; a node that a filter of the
\* pipe rejects is never handed to the processor, and its children are
\* decoded all the same.
C13_FilterSemantics ==
    pc \in {"running", "returned", "abandoned"} =>
        /\ filters = <<>> => processed = SelectSeq(decoded, IsAccepted)
        /\ \A n \in 1..Len(node) : Rejected(n) => ~InSeq(n, processed)
        /\ (pc = "returned" /\ outcome = Some(Ok)) =>
             \A n \in 1..Len(node) :
               (Rejected(n) /\ InSeq(n, decoded)) =>
                 \A k \in 1..Len(Children(node, n)) : InSeq(Children(node, n)[k], decoded)

\* The frames of run whose processor call is in flight.
FramesInFlight == {k \in 1..Len(stack) : InFlight(stack[k])}

\* C14 (no speculative descent): while a processor call is in flight,
\* suspended or not, it is the only one of the traversal, its frame is the
\* innermost one (no run of a child has started) and no child of its node
\* has been handed to the decoder or the processor.
C14_NoSpeculativeDescent ==
    pc = "running" =>
        /\ Cardinality(FramesInFlight) <= 1
        /\ \A k \in FramesInFlight :
             /\ k = Len(stack)
             /\ \A c \in 1..Len(Children(node, stack[k].node)) :
                  /\ ~InSeq(Children(node, stack[k].node)[c], decoded)
                  /\ ~InSeq(Children(node, stack[k].node)[c], processed)

\* The processor call of a node that has children is suspended in the run
\* of a child, after the processor call of
\* its parent has completed.
C14_Witness ==
    /\ pc = "running"
    /\ Len(stack) >= 2
    /\ Top.at = "pending"
    /\ InSeq(stack[Len(stack) - 1].node, processed)
    /\ Children(node, Top.node) # <<>>

(***************************************************************************)
(* Transactions with arbitrary references, in both formats, checked under  *)
(* SpecRefs.                                                               *)
(***************************************************************************)

\* n account keys: key k sits at index k - 1 of the table.
KeyTable(n) == [k \in 1..n |-> k]

\* A transaction of one top-level instruction and one inner instruction,
\* both with program-id index pid and account indices accts, over a table
\* of n keys: for a legacy message all static, for a v0 message s static
\* keys, then w loaded writable addresses, then the loaded readonly ones.
RefTransaction(format, n, s, w, pid, accts, hint) ==
    [Transaction(format, 1, None) EXCEPT
        !.account_keys = SubSeq(KeyTable(n), 1, s),
        !.loaded_writable = SubSeq(KeyTable(n), s + 1, s + w),
        !.loaded_readonly = SubSeq(KeyTable(n), s + w + 1, n),
        !.instructions = <<CompiledInstruction(pid, accts, <<0>>)>>,
        !.inner_instructions =
            Some(<<[index |-> 0,
                    instructions |-> <<[instruction |-> CompiledInstruction(pid, accts, <<1, 1>>),
                                        stack_height |-> hint]>>]>>)]

InitRefs ==
    /\ \E n \in 0..MaxKeys, pid \in 0..MaxKeys, L \in 0..MaxAccts, hint \in {None, Some(2)} :
         \E accts \in [1..L -> 0..MaxKeys] :
           \/ tx = RefTransaction("legacy", n, n, 0, pid, accts, hint)
           \/ \E s \in 0..n : \E w \in 0..(n - s) :
                tx = RefTransaction("v0", n, s, w, pid, accts, hint)
    /\ pc = "extracting"
    /\ cursor = StartCursor
    /\ instructions = <<>>
    /\ NoBuilder
    /\ NoRun
    /\ NoPlugin

NextRefs ==
    \/ ExtractTop
    \/ ExtractInner
    \/ ExtractReturn

SpecRefs == InitRefs /\ [][NextRefs]_vars

\* The whole account-key table of a transaction: its static keys followed
\* by its loaded writable and readonly addresses.
FullTable(t) == t.account_keys \o t.loaded_writable \o t.loaded_readonly

InTable(idx) == idx < Len(FullTable(tx))

\* The compiled instruction the k-th output entry was made from.
SourceOf(k) ==
    IF k = 1 THEN tx.instructions[1]
    ELSE inner_groups(tx)[1].instructions[1].instruction

\* The keys of the in-range account indices of a compiled instruction, in
\* their order.
ResolvedKeys(ci) ==
    [j \in 1..Len(SelectSeq(ci.accounts, InTable)) |->
        FullTable(tx)[SelectSeq(ci.accounts, InTable)[j] + 1]]

Pubkeys(accounts) == [j \in 1..Len(accounts) |-> accounts[j].pubkey]

\* C15 (unresolvable references never abort extraction): extraction never
\* panics on a program-id or account index outside the table; an entry's
\* program id is the key at its index, or the all-zero key when the index
\* is outside the table; its accounts are the keys of the in-range indices
\* in their order, the others omitted; and the list returned has one entry
\* per instruction.
C15_UnresolvableReferences ==
    /\ pc # "extract_panicked"
    /\ \A k \in 1..Len(instructions) :
         /\ instructions[k].instruction.program_id =
              (IF InTable(SourceOf(k).program_id_index)
               THEN FullTable(tx)[SourceOf(k).program_id_index + 1]
               ELSE DefaultPubkey)
         /\ Pubkeys(instructions[k].instruction.accounts) = ResolvedKeys(SourceOf(k))
         /\ instructions[k].instruction.data = SourceOf(k).data
    /\ pc = "extracted" => Len(instructions) = 2

\* Extraction returned two entries for instructions whose program-id index
\* is outside the table and whose accounts are an in-range index, an index
\* outside the table and another in-range index.
C15_Witness ==
    /\ pc = "extracted"
    /\ Len(instructions) = 2
    /\ ~InTable(tx.instructions[1].program_id_index)
    /\ Len(tx.instructions[1].accounts) = 3
    /\ InTable(tx.instructions[1].accounts[1])
    /\ ~InTable(tx.instructions[1].accounts[2])
    /\ InTable(tx.instructions[1].accounts[3])
    /\ tx.instructions[1].accounts[1] # tx.instructions[1].accounts[3]
    /\ Len(instructions[1].instruction.accounts) = 2

\* The legacy message with the same resolved account-key table, top-level
\* instructions and inner groups as t.
AsLegacy(t) ==
    [t EXCEPT !.format = "legacy",
              !.account_keys = FullTable(t),
              !.loaded_writable = <<>>,
              !.loaded_readonly = <<>>]

\* An output list without its writable and signer flags.
Shape(list) ==
    [k \in 1..Len(list) |->
        [metadata |-> list[k].metadata,
         program_id |-> list[k].instruction.program_id,
         pubkeys |-> Pubkeys(list[k].instruction.accounts),
         data |-> list[k].instruction.data]]

\* What the legacy path returns for the same table, instructions and groups.
LegacyOutput == extract_from(AsLegacy(tx), StartCursor, <<>>)

\* C16 (both message formats give the same output shape): the list the
\* extractor returns for a transaction, v0 or legacy, has the length of the
\* list the legacy path returns for the same resolved account-key table,
\* top-level instructions and inner groups, and its entries have the same
\* stack height, index, absolute path, program id, account keys and
\* payload.
C16_SameShape ==
    pc = "extracted" =>
        /\ LegacyOutput # None
        /\ Shape(instructions) = Shape(LegacyOutput[1])

\* The v0 path returned two entries whose program id and an account come
\* from the loaded addresses, with flags that differ from the legacy
\* path's.
C16_Witness ==
    /\ pc = "extracted"
    /\ tx.format = "v0"
    /\ tx.loaded_writable # <<>>
    /\ tx.loaded_readonly # <<>>
    /\ tx.instructions[1].program_id_index >= Len(tx.account_keys)
    /\ InTable(tx.instructions[1].program_id_index)
    /\ Len(instructions) = 2
    /\ Len(instructions[1].instruction.accounts) >= 2
    /\ instructions # LegacyOutput[1]

\* C17 (the tree is read-only under traversal): no step taken while
\* InstructionPipe::run is in progress (a decoder call, a processor call
\* that completes, fails or suspends, a descent, a return, an abandonment)
\* changes the forest: the nodes, their children lists and the top-level
\* list stay as build returned them.
C17_TreeReadOnly ==
    [][pc = "running" => (node' = node /\ nested_ixs' = nested_ixs)]_vars

\* A run on a tree that build returned whole was abandoned at a suspended
\* processor call, the second one of the run at least.
C17_Witness ==
    /\ pc = "abandoned"
    /\ Len(processed) >= 2
    /\ Len(Children(node, root)) >= 1
    /\ Flatten(node, nested_ixs) = instructions

\* build is about to dereference a level tail: the next entry has a stack
\* height in 2..MAX and the level above it holds a pointer.
AboutToDereference ==
    /\ pc = "building"
    /\ next <= Len(instructions)
    /\ HeightAsserts(StackHeight(instructions, next))
    /\ ~IsTopLevel(StackHeight(instructions, next))
    /\ level_ptrs[ParentLevel(StackHeight(instructions, next))] # None

\* The pointer build dereferences for the next entry.
ParentPtr == level_ptrs[ParentLevel(StackHeight(instructions, next))][1]

\* C18 (no stale level tail is ever used): build never dereferences a
\* dangling pointer; the level tail it dereferences to append a child
\* points into the current buffer of its container (no push has
\* reallocated it since the pointer was taken) and at its last element (no
\* push has added an element since).
C18_NoStaleLevelTail ==
    /\ pc # "undefined"
    /\ AboutToDereference =>
         /\ ~Dangling(node, nested_ixs, ParentPtr)
         /\ ParentPtr.slot = Len(VecOf(node, nested_ixs, ParentPtr.vec).items)

\* A forest was built in a top-level container that was created too small
\* and reallocated, and a child was appended to its second root afterwards.
C18_Witness ==
    /\ pc = "built"
    /\ nested_ixs.gen >= 1
    /\ Len(nested_ixs.items) >= 2
    /\ Children(node, Last(nested_ixs.items)) # <<>>

\* The entries of stack height 1 of a flat list.
RootEntries(list) == SelectSeq(list, IsHeight1)

\* C19 (pre-sizing is exact): in a build started by NestedInstructions::from
\* the top-level container has the capacity it was created with, the count
\* of entries of stack height 1, the pushes into it never exceed that
\* capacity, and its buffer is never reallocated.
C19_PreSizingExact ==
    pc \in {"building", "built", "panicked"} =>
        /\ nested_ixs.cap = Len(RootEntries(instructions))
        /\ Len(nested_ixs.items) <= nested_ixs.cap
        /\ nested_ixs.gen = 0

\* from has built a forest of two roots, with children, in a top-level
\* container of capacity 2.
C19_Witness ==
    /\ pc = "built"
    /\ nested_ixs.cap = 2
    /\ Len(nested_ixs.items) = 2
    /\ \E n \in 1..Len(node) : Children(node, n) # <<>>

(***************************************************************************)
(* Deep lists: a chain of rising stack heights, checked under SpecDeep.    *)
(***************************************************************************)

\* The stack heights 1, 2, .., d.
Chain(d) == [k \in 1..d |-> k]

\* A flat list handed to the builder directly: a chain of d entries, up to
\* one more than the maximum depth, followed by a tail of any heights.
InitDeep ==
    /\ tx = NoTransaction
    /\ pc = "extracted"
    /\ cursor = StartCursor
    /\ \E d \in 0..(MAX_INSTRUCTION_STACK_DEPTH + 1), L \in 0..MaxTail :
         \E tail \in [1..L -> Heights] : instructions = DirectList(Chain(d) \o tail)
    /\ NoBuilder
    /\ NoRun
    /\ NoPlugin

SpecDeep == InitDeep /\ [][NextRun]_vars

\* C20 (bounded tree depth): in the forest build is making or has returned,
\* every root has stack height 1 and every child has the stack height of
\* its parent plus 1, so that no node has a stack height above
\* MAX_INSTRUCTION_STACK_DEPTH; and the runs of InstructionPipe::run nested
\* in one another on such a tree never number more than that.
C20_BoundedDepth ==
    /\ \A r \in 1..Len(nested_ixs.items) : node[nested_ixs.items[r]].metadata.stack_height = 1
    /\ \A n \in 1..Len(node) :
         /\ node[n].metadata.stack_height <= MAX_INSTRUCTION_STACK_DEPTH
         /\ \A c \in 1..Len(Children(node, n)) :
              node[Children(node, n)[c]].metadata.stack_height
                = node[n].metadata.stack_height + 1
    /\ Len(stack) <= MAX_INSTRUCTION_STACK_DEPTH

\* run is nested MAX_INSTRUCTION_STACK_DEPTH deep, on a node of that stack
\* height.
C20_Witness ==
    /\ pc = "running"
    /\ Len(stack) = MAX_INSTRUCTION_STACK_DEPTH
    /\ node[Top.node].metadata.stack_height = MAX_INSTRUCTION_STACK_DEPTH

(***************************************************************************)
(* Counters and lengths of the extractor's output.                         *)
(***************************************************************************)

\* An output entry made from a top-level instruction (payload <<i>>; an
\* inner instruction carries <<g, k>>).
IsTopEntry(e) == Len(e.instruction.data) = 1

\* Entries a and b are inner instructions of the same group with the same
\* stack height.
SameRun(a, b) ==
    /\ ~IsTopEntry(a)
    /\ ~IsTopEntry(b)
    /\ a.instruction.data[1] = b.instruction.data[1]
    /\ a.metadata.stack_height = b.metadata.stack_height

\* The first position of the run of consecutive inner instructions of one
\* group and one stack height that ends at position k.
RunHead(list, k) ==
    Max(1, CHOOSE p \in 1..k :
              /\ p = 1 \/ ~SameRun(list[p - 1], list[k])
              /\ \A q \in (p + 1)..k : SameRun(list[q - 1], list[k]))

\* The run that ends at position k started with a counter reset: the entry
\* before it is not a deeper inner instruction of the same group.
RunStartsAtZero(list, k) ==
    \/ RunHead(list, k) = 1
    \/ IsTopEntry(list[RunHead(list, k) - 1])
    \/ list[RunHead(list, k) - 1].instruction.data[1] # list[k].instruction.data[1]
    \/ StackHeight(list, RunHead(list, k) - 1) < StackHeight(list, k)

\* C21 (sibling counter is exact for any number of siblings), as claimed:
\* the entry just pushed, if it is top-level instruction i, has path [i];
\* if it is the j-th (0-based) of a run of consecutive inner instructions of
\* one group with one stack height d, its path element at depth d is j;
\* whatever i and j are.
C21_SiblingCounterExact ==
    instructions # <<>> =>
        IF IsTopEntry(Last(instructions))
        THEN Last(instructions).metadata.absolute_path = <<Last(instructions).metadata.index>>
        ELSE RunStartsAtZero(instructions, Len(instructions)) =>
               Last(instructions).metadata.absolute_path[StackHeight(instructions, Len(instructions))]
                 = Len(instructions) - RunHead(instructions, Len(instructions))

(***************************************************************************)
(* The level tails of the builder, checked under SpecBuild.                *)
(***************************************************************************)

\* The levels (1-based: level l holds the tail of stack height l) with a
\* recorded tail.
Recorded == {l \in 1..MAX_INSTRUCTION_STACK_DEPTH : level_ptrs[l] # None}

\* The node the tail of a recorded level points at.
TailNode(l) == Pointee(node, nested_ixs, level_ptrs[l][1])

\* C22 (level-tail prefix invariant): while build runs, the levels with a
\* recorded tail are the first k levels for some k; the tail of the first
\* level is the last root, the tail of each further level is the last
\* child of the tail of the level above it; and once an entry of stack
\* height h has been processed no level deeper than that entry's has a
\* tail.
C22_LevelTailPrefix ==
    pc = "building" =>
        /\ \A l \in Recorded : l > 1 => (l - 1) \in Recorded
        /\ \A l \in Recorded :
             /\ ~Dangling(node, nested_ixs, level_ptrs[l][1])
             /\ IF l = 1
                THEN /\ level_ptrs[l][1].vec = 0
                     /\ TailNode(l) = Last(nested_ixs.items)
                ELSE /\ level_ptrs[l][1].vec = TailNode(l - 1)
                     /\ TailNode(l) = Last(Children(node, TailNode(l - 1)))
        /\ next > 1 =>
             \A l \in Recorded : l <= StackHeight(instructions, next - 1)

\* build has processed four entries, the second a second root, and holds
\* the tails of three levels.
C22_Witness ==
    /\ pc = "building"
    /\ next = 5
    /\ Recorded = {1, 2, 3}
    /\ Len(nested_ixs.items) = 2

\* The payloads of a list of compiled or output instructions.
Payloads(list) == [k \in 1..Len(list) |-> list[k].instruction.data]

RECURSIVE GroupPayloads(_, _, _)
\* The payloads of the inner instructions of the groups g, g + 1, .. of t
\* that name top-level instruction i, group after group.
GroupPayloads(t, i, g) ==
    IF g > Len(GroupsOf(t)) THEN <<>>
    ELSE (IF GroupsOf(t)[g].index = i THEN Payloads(GroupsOf(t)[g].instructions) ELSE <<>>)
         \o GroupPayloads(t, i, g + 1)

RECURSIVE ExpectedPayloads(_, _)
\* The payloads of top-level instructions i, i + 1, .. of t, each followed
\* by those of the groups that name it.
ExpectedPayloads(t, i) ==
    IF i >= Len(t.instructions) THEN <<>>
    ELSE <<t.instructions[i + 1].data>> \o GroupPayloads(t, i, 1) \o ExpectedPayloads(t, i + 1)

\* C23 (extractor output length): the list the extractor returns has one
\* entry per top-level instruction plus one per inner instruction of every
\* group whose index is below the number of top-level instructions; a group
\* that names no top-level instruction contributes nothing, and the groups
\* that name the same one all contribute, in the order supplied.
C23_OutputLength ==
    pc = "extracted" =>
        /\ Len(instructions) = Len(tx.instructions) + SumLen(GroupsOf(tx), TaggedGroups(tx))
        /\ Payloads(instructions) = ExpectedPayloads(tx, 0)

\* The extractor returned the entries of two groups that name the same
\* top-level instruction, the second top-level instruction having none.
C23_Witness ==
    /\ pc = "extracted"
    /\ Len(tx.instructions) = 2
    /\ Len(GroupsOf(tx)) = 2
    /\ GroupsOf(tx)[1].index = 0
    /\ GroupsOf(tx)[2].index = 0
    /\ Len(GroupsOf(tx)[1].instructions) = 1
    /\ Len(GroupsOf(tx)[2].instructions) = 1
    /\ Len(instructions) = 4

\* The inner groups of t name pairwise distinct top-level indices.
DistinctIndices(t) ==
    \A g1, g2 \in 1..Len(GroupsOf(t)) :
        g1 # g2 => GroupsOf(t)[g1].index # GroupsOf(t)[g2].index

\* The number of earlier siblings of inner instruction k of a group: the
\* earlier instructions of its stack height with nothing shallower between.
SiblingRank(insts, k) ==
    Cardinality({j \in 1..(k - 1) :
        /\ insts[j].stack_height = insts[k].stack_height
        /\ \A m \in j..k : insts[m].stack_height[1] >= insts[k].stack_height[1]})

\* Fewer than 256 siblings at every level of every group.
FewSiblings(t) ==
    \A g \in 1..Len(GroupsOf(t)) :
        \/ Len(GroupsOf(t)[g].instructions) < 256
        \/ \A k \in 1..Len(GroupsOf(t)[g].instructions) :
             SiblingRank(GroupsOf(t)[g].instructions, k) < 255

\* The entry just pushed has a path no earlier entry has.
LastPathIsNew ==
    \A k \in 1..(Len(instructions) - 1) :
        instructions[k].metadata.absolute_path # Last(instructions).metadata.absolute_path

\* C24 (path uniqueness): for a transaction of at most 256 top-level
\* instructions whose groups name pairwise distinct indices and whose hints
\* are in protocol pre-order with fewer than 256 siblings per level, every
\* entry the extractor pushes has an absolute path that no earlier entry
\* has: the paths of the output are pairwise distinct.
C24_PathUniqueness ==
    \/ LastPathIsNew
    \/ Len(tx.instructions) > 256
    \/ ~DistinctIndices(tx)
    \/ ~ProtocolPreOrder(tx)
    \/ ~FewSiblings(tx)

\* The extractor returned four entries for two top-level instructions, each
\* with one inner instruction of its own in protocol pre-order.
C24_Witness ==
    /\ pc = "extracted"
    /\ Len(tx.instructions) = 2
    /\ Len(GroupsOf(tx)) = 2
    /\ DistinctIndices(tx)
    /\ ProtocolPreOrder(tx)
    /\ Len(GroupsOf(tx)[1].instructions) = 1
    /\ Len(GroupsOf(tx)[2].instructions) = 1
    /\ Len(instructions) = 4

(***************************************************************************)
(* The tracking plugin (plugins/pumpfun_tracking.rs): on_transaction gates *)
(* on the message, extracts the flat list and hands every entry that       *)
(* decodes to a trade event to the callback.                               *)
(***************************************************************************)

\* The stack-height hints of the transactions handed to the plugin: none,
\* one below the range, and the height of a child of the top-level
\* instruction.
PluginHints == {None, Some(0), Some(2)}

\* What PumpfunDecoder::decode_instruction gives for an entry: None, a
\* trade event, or another instruction of the program.
DecodeOutcomes == {"none", "trade_event", "other"}

\* A transaction handed to the plugin: n top-level instructions, the inner
\* instructions of hints hs under the first of them (if present), and a
\* table of nk keys of which the first s are the message's static keys and
\* the others its loaded writable addresses.
PluginTransaction(format, n, inner, nk, s) ==
    [Transaction(format, n, inner) EXCEPT
        !.account_keys = SubSeq(KeyTable(nk), 1, s),
        !.loaded_writable = SubSeq(KeyTable(nk), s + 1, nk)]

InitPlugin ==
    /\ \E n \in 0..MaxTop, nk \in 0..MaxKeys, L \in 0..MaxInner :
         \E hs \in [1..L -> PluginHints],
            inner \in {"none", "group"} :
           LET groups == IF inner = "none" THEN None
                         ELSE Some(<<InnerGroup(1, 0, hs)>>)
           IN  \/ tx = PluginTransaction("legacy", n, groups, nk, nk)
               \/ \E s \in 0..nk : tx = PluginTransaction("v0", n, groups, nk, s)
    /\ \E mint \in 1..MaxKeys : plugin = Plugin(mint)
    /\ pc = "on_transaction"
    /\ cursor = StartCursor
    /\ instructions = <<>>
    /\ NoBuilder
    /\ NoRun

\* account_keys.iter().any(|&key| key == mint), over the static keys of
\* the message of either format.
mint_involved(t, mint) ==
    \E j \in 1..Len(t.account_keys) : t.account_keys[j] = mint

\* on_transaction on a message without instructions returns Ok at once.
OnTransactionEmpty ==
    /\ pc = "on_transaction"
    /\ tx.instructions = <<>>
    /\ plugin' = [plugin EXCEPT !.called = TRUE, !.result = Some(Ok)]
    /\ pc' = "plugin_returned"
    /\ UNCHANGED <<tx, cursor, instructions>>
    /\ UNCHANGED buildVars
    /\ UNCHANGED runVars

\* The mint is not among the static keys: the body is skipped, Ok(()).
OnTransactionNotInvolved ==
    /\ pc = "on_transaction"
    /\ tx.instructions # <<>>
    /\ ~mint_involved(tx, plugin.mint)
    /\ plugin' = [plugin EXCEPT !.called = TRUE, !.result = Some(Ok)]
    /\ pc' = "plugin_returned"
    /\ UNCHANGED <<tx, cursor, instructions>>
    /\ UNCHANGED buildVars
    /\ UNCHANGED runVars

\* The mint is involved: on_transaction calls
\* extract_instructions_with_metadata.
OnTransactionExtract ==
    /\ pc = "on_transaction"
    /\ tx.instructions # <<>>
    /\ mint_involved(tx, plugin.mint)
    /\ plugin' = [plugin EXCEPT !.called = TRUE]
    /\ pc' = "extracting"
    /\ UNCHANGED <<tx, cursor, instructions>>
    /\ UNCHANGED buildVars
    /\ UNCHANGED runVars

\* One turn of the loop over the flat list: the entry is decoded, and a
\* trade event is handed to the callback.
OnTransactionEntry ==
    /\ pc = "extracted"
    /\ plugin.called
    /\ plugin.position <= Len(instructions)
    /\ \E d \in DecodeOutcomes :
         plugin' = IF d = "trade_event"
                   THEN [plugin EXCEPT
                            !.trades = plugin.trades \cup {plugin.position},
                            !.events = Append(plugin.events, plugin.position),
                            !.position = plugin.position + 1]
                   ELSE [plugin EXCEPT !.position = plugin.position + 1]
    /\ UNCHANGED <<tx, pc, cursor, instructions>>
    /\ UNCHANGED buildVars
    /\ UNCHANGED runVars

\* The loop is over: Ok(()).
OnTransactionReturn ==
    /\ pc = "extracted"
    /\ plugin.called
    /\ plugin.position > Len(instructions)
    /\ plugin' = [plugin EXCEPT !.result = Some(Ok)]
    /\ pc' = "plugin_returned"
    /\ UNCHANGED <<tx, cursor, instructions>>
    /\ UNCHANGED buildVars
    /\ UNCHANGED runVars

NextPlugin ==
    \/ OnTransactionEmpty
    \/ OnTransactionNotInvolved
    \/ OnTransactionExtract
    \/ ExtractTop
    \/ ExtractInner
    \/ ExtractReturn
    \/ OnTransactionEntry
    \/ OnTransactionReturn

SpecPlugin == InitPlugin /\ [][NextPlugin]_vars

\* The callback may run: the message has a top-level instruction and the
\* mint is among its static keys.
Gate == tx.instructions # <<>> /\ mint_involved(tx, plugin.mint)

\* The positions of the flat list that decoded to a trade event, in the
\* order of the list.
TradePositions == SelectSeq([k \in 1..Len(instructions) |-> k],
                            LAMBDA k : k \in plugin.trades)

\* The callback was invoked only behind the gate, and once on_transaction
\* has returned, once for each trade event, in the order of the flat list.
GatedAndOrdered ==
    /\ plugin.events # <<>> => Gate
    /\ pc = "plugin_returned" =>
         plugin.events = (IF Gate THEN TradePositions ELSE <<>>)

\* C25: on_transaction invokes the trade-event callback only when the
\* transaction has a top-level instruction and the mint is among the static
\* account keys, then once for each flat-list entry that decodes to a trade
\* event, in the flat output order, and it always returns Ok: no call ends
\* in a panic, and a call that ended returned Ok.
C25_CallbackGatingAndOrder ==
    /\ GatedAndOrdered
    /\ plugin.called => pc # "extract_panicked"
    /\ pc = "plugin_returned" => plugin.result = Some(Ok)

====
